---- MODULE Spec2Model ----
(***************************************************************************)
(* The offline operation queue of mobile/lib/offlineQueue.ts as a state    *)
(* machine.  JavaScript runs the class on one thread: a handler runs       *)
(* without interruption up to its next await on a platform call            *)
(* (AsyncStorage.getItem / setItem / removeItem, fetch, a NetInfo event),  *)
(* so every action below is one such run: the completion of the platform   *)
(* call that was awaited, followed by the code up to the next platform     *)
(* call.  An await on a promise that is already settled (executeOperation  *)
(* throwing for a type without a branch) resumes in a microtask, before    *)
(* any platform completion, and is part of the same action.                *)
(***************************************************************************)
EXTENDS Naturals, Sequences, FiniteSets

\* ------------------------------------------------------------------ bounds
\* Number of enqueue calls made over a behaviour.
MaxOps == 2
\* Number of enqueue calls that may be in flight at once.
MaxEnqueuers == 2
\* Number of processQueue invocations that may be unresolved at once.
MaxInvocations == 2
\* Number of getQueue results kept for comparison.
MaxReads == 2
\* Number of callbacks the application has, and of registrations held at once.
MaxCallbacks == 2
MaxListeners == 2

\* --------------------------------------------------------- program constants
\* offlineQueue.ts:129, the retry budget in `operation.retries < 3`.
MAX_RETRIES == 3

\* QueuedOperation['type'], offlineQueue.ts:12.
OperationTypes ==
    {"create_product", "update_product", "restock", "create_order", "log_expense"}

\* The types executeOperation has a case for, offlineQueue.ts:153-178.
FetchTypes == {"create_product", "update_product", "restock", "log_expense"}

\* The types and payloads the callers of enqueue pass in this model.
EnqueuedTypes == {"restock", "create_order"}
Payloads == {"body"}

\* What a fetch can do: answer 2xx, answer with another status, or reject
\* (network error).  fetch rejects only on a network error.
FetchOutcomes == {"ok2xx", "non2xx", "neterr"}

\* NetInfo's state.isConnected: boolean | null, offlineQueue.ts:30.
ConnectedValues == {"true", "false", "null"}

VARIABLES
    isOnline,        \* OfflineQueue.isOnline
    syncInProgress,  \* OfflineQueue.syncInProgress
    storage,         \* AsyncStorage's entry under QUEUE_KEY
    enq,             \* the enqueue calls in flight
    pass,            \* the processQueue invocations, by slot
    issued,          \* history: the operations enqueue has constructed, in call order
    quiet,           \* history: no pass, clearQueue or overlapping enqueue so far
    tracked,         \* the operation id whose life the history below follows (0: none)
    attempts,        \* history: the execution attempts of the tracked operation
    wroteOut,        \* history: a replay pass wrote the tracked operation out
    cleared,         \* history: clearQueue removed the tracked operation
    got,             \* history: what the getQueue calls since the last write returned
    listeners,       \* OfflineQueue.listeners
    called,          \* history: the listener calls of the last event that made any
    blind            \* history: the calls in flight whose read of the queue failed

vars == <<isOnline, syncInProgress, storage, enq, pass, issued, quiet,
          tracked, attempts, wroteOut, cleared, got, listeners, called, blind>>

\* The listeners and the history of their calls and of the failed reads.
watch == <<listeners, called, blind>>

\* The history of the tracked operation.
trace == <<tracked, attempts, wroteOut, cleared>>

PassSlots == 1..MaxInvocations
Ids == 1..MaxOps
Callbacks == 1..MaxCallbacks

\* ------------------------------------------------------------ JSON, storage
\* JSON.stringify of a QueuedOperation[]: the fields of each object in
\* declaration order.
Stringify(q) ==
    [k \in 1..Len(q) |->
        <<q[k].id, q[k].type, q[k].payload, q[k].timestamp, q[k].retries>>]

\* JSON.parse of such a text.
Parse(s) ==
    [k \in 1..Len(s) |->
        [id |-> s[k][1], type |-> s[k][2], payload |-> s[k][3],
         timestamp |-> s[k][4], retries |-> s[k][5]]]

\* The entry under QUEUE_KEY: absent (getItem gives null) or a JSON text.
NoEntry == [has |-> FALSE, text |-> <<>>]
Entry(text) == [has |-> TRUE, text |-> text]

\* getQueue, offlineQueue.ts:88-96: `data ? JSON.parse(data) : []`.
GetQueue(st) == IF st.has THEN Parse(st.text) ELSE <<>>

IdsOf(q) == {q[k].id : k \in 1..Len(q)}
StoredIds == IdsOf(GetQueue(storage))

\* ------------------------------------------------------------------- enqueue
\* The operation enqueue constructs, offlineQueue.ts:63-69.  The id and the
\* timestamp come from Date.now() (the id with random digits appended, taken
\* to be unique); the model's clock is the call count.
NewOperation(n, type, payload) ==
    [id |-> n, type |-> type, payload |-> payload, timestamp |-> n, retries |-> 0]

PushFront(queue, op) == <<op>> \o queue

\* queue.push(operation), offlineQueue.ts:72.
Push(queue, op) == Append(queue, op)

\* The mark of a call whose read of the queue failed: enqueue of operation
\* n, or the processQueue invocation in slot n.
ReadFailed(by, n) == [by |-> by, n |-> n]

\* An enqueue call in flight: where it is, its operation, and the text it
\* hands to setItem.
EnqueueAt(pc, op, text) == [pc |-> pc, op |-> op, text |-> text]

TriggersReplayAlways(online) == TRUE

\* `if (this.isOnline)` before enqueue's processQueue(), offlineQueue.ts:78.
TriggersReplay(online) == online

AnyOnlineEventTriggers(wasOffline, now) == now

\* `if (wasOffline && this.isOnline)` of the NetInfo listener,
\* offlineQueue.ts:36.
ReconnectTriggers(wasOffline, now) == wasOffline /\ now

\* --------------------------------------------------------------- processQueue
\* A processQueue invocation: where it is, the locals queue, remaining,
\* success and failed, the loop position i, the id of the operation whose
\* fetch is awaited (0: none), the text handed to setItem, and the log of
\* the iterations done.
IdlePass ==
    [pc |-> "idle", queue |-> <<>>, i |-> 0, remaining |-> <<>>,
     success |-> 0, failed |-> 0, calling |-> 0, text |-> <<>>, log |-> <<>>]

Returned(s, f) == [IdlePass EXCEPT !.pc = "returned", !.success = s, !.failed = f]

\* An invocation whose promise rejects: the exception of setItem leaves
\* processQueue through finally, offlineQueue.ts:138-141.
Rejected == [IdlePass EXCEPT !.pc = "rejected"]

\* Past the guard and not yet returned, offlineQueue.ts:114-141.
Running == {"read", "call", "write", "finally"}

FreePassSlot(p) ==
    pass[p].pc = "idle" /\ \A r \in PassSlots : r < p => pass[r].pc # "idle"

\* A call has returned or thrown and its promise has not yet settled.
ReturnPending ==
    \/ \E p \in PassSlots : pass[p].pc \in {"returned", "rejected"}
    \/ \E e \in enq : e.pc = "rejected"

SkipsPassIgnoringFlag(inProgress, online) == ~online

SkipsPassWhenBoth(inProgress, online) == inProgress /\ ~online

SkipsPassIgnoringOnline(inProgress, online) == inProgress

\* The guard of processQueue, offlineQueue.ts:110.
SkipsPass(inProgress, online) == inProgress \/ ~online

RetainedInclusive(retries) == retries <= MAX_RETRIES

\* The retain test of the catch branch, offlineQueue.ts:129.
Retained(retries) == retries < MAX_RETRIES

NextOperationNewestFirst(queue, i) == queue[Len(queue) + 1 - i]

\* The operation the loop hands to executeOperation at position i,
\* offlineQueue.ts:122.
NextOperation(queue, i) == queue[i]

FailedAfterSilentDrop(failed) == failed

\* `failed++` for an operation that is not retained, offlineQueue.ts:132.
FailedAfterDrop(failed) == failed + 1

\* One iteration's bookkeeping once executeOperation has settled,
\* offlineQueue.ts:123-135: the try branch for a fulfilled promise, the catch
\* branch for a rejected one.  queue keeps the operations as they were read:
\* `operation.retries++` changes the object that goes into remaining, and
\* nothing reads it through queue again.
Settle(s, outcome) ==
    LET op == NextOperation(s.queue, s.i) IN
    IF outcome \in {"ok2xx", "non2xx"}
    THEN [s EXCEPT !.success = @ + 1, !.i = @ + 1, !.calling = 0,
                   !.log = Append(@, [id |-> op.id, retries |-> op.retries,
                                      counted |-> "success"])]
    ELSE LET bumped == [op EXCEPT !.retries = @ + 1] IN
         IF Retained(bumped.retries)
         THEN [s EXCEPT !.remaining = Append(@, bumped), !.i = @ + 1,
                        !.calling = 0,
                        !.log = Append(@, [id |-> op.id, retries |-> bumped.retries,
                                           counted |-> "retained"])]
         ELSE [s EXCEPT !.failed = FailedAfterDrop(@), !.i = @ + 1, !.calling = 0,
                        !.log = Append(@, [id |-> op.id, retries |-> bumped.retries,
                                           counted |-> "failed"])]

LoopEndsAfterFailure(s) ==
    \/ s.i > Len(s.queue)
    \/ s.log # <<>> /\ s.log[Len(s.log)].counted # "success"

LoopEndsWhenOffline(s) == s.i > Len(s.queue) \/ ~isOnline

\* `for (const operation of queue)` has no operation left, offlineQueue.ts:122.
LoopEnds(s) == s.i > Len(s.queue)

\* The for loop from position s.i up to its next platform call,
\* offlineQueue.ts:122-138: a fetch for a type executeOperation has a case
\* for, the throw of its default branch (offlineQueue.ts:179-180) settled
\* on the spot, and setItem of the retained list after the last operation.
RECURSIVE RunLoop(_)
RunLoop(s) ==
    IF LoopEnds(s)
    THEN [s EXCEPT !.pc = "write", !.text = Stringify(s.remaining)]
    ELSE IF NextOperation(s.queue, s.i).type \in FetchTypes
         THEN [s EXCEPT !.pc = "call", !.calling = NextOperation(s.queue, s.i).id]
         ELSE RunLoop(Settle(s, "unknown"))

\* The attempts of operation id among those a step added to a pass's log,
\* each with what executeOperation did: the outcome of the fetch that
\* settled in this step for the first, the throw of the default branch for
\* the ones the loop went through after it.
RECURSIVE Record(_, _, _, _)
Record(h, entries, id, outcome) ==
    IF entries = <<>> THEN h
    ELSE Record(IF Head(entries).id = id
                THEN Append(h, [outcome |-> outcome,
                                retries |-> Head(entries).retries,
                                counted |-> Head(entries).counted])
                ELSE h,
                Tail(entries), id, "unknown")

NewEntries(old, new) == SubSeq(new.log, Len(old.log) + 1, Len(new.log))

EarlyReturnThroughFinally(inProgress) == FALSE

\* The flag after the early return of offlineQueue.ts:111, which stands
\* before the try of line 118: the finally of line 139 does not run.
EarlyReturnFlag(inProgress) == inProgress

\* A processQueue invocation in slot p up to its first await,
\* offlineQueue.ts:109-119, reading `online` for this.isOnline.
Invoke(p, online) ==
    IF SkipsPass(syncInProgress, online)
    THEN /\ pass' = [pass EXCEPT ![p] = Returned(0, 0)]
         /\ syncInProgress' = EarlyReturnFlag(syncInProgress)
         /\ UNCHANGED quiet
    ELSE /\ pass' = [pass EXCEPT ![p] = [IdlePass EXCEPT !.pc = "read"]]
         /\ syncInProgress' = TRUE
         /\ quiet' = FALSE

\* -------------------------------------------------------------------- Init
\* The singleton after construction, offlineQueue.ts:19-25 and 193, with
\* nothing stored under QUEUE_KEY, following operation id n.
InitFollowing(n) ==
    /\ isOnline = TRUE
    /\ syncInProgress = FALSE
    /\ storage = NoEntry
    /\ enq = {}
    /\ pass = [p \in PassSlots |-> IdlePass]
    /\ issued = <<>>
    /\ quiet = TRUE
    /\ tracked = n
    /\ attempts = <<>>
    /\ wroteOut = FALSE
    /\ cleared = FALSE
    /\ got = <<>>
    /\ listeners = <<>>
    /\ called = <<>>
    /\ blind = {}

\* The program with no operation followed: the history of attempts stays
\* empty.
Init == InitFollowing(0)

\* The program with the life of one operation, whichever, followed.
InitTracked == \E n \in Ids : InitFollowing(n)

\* ----------------------------------------------------------------- actions
\* enqueue up to `await AsyncStorage.getItem`, offlineQueue.ts:62-71 and 90.
EnqueueCall(type, payload) ==
    /\ ~ReturnPending
    /\ Len(issued) < MaxOps
    /\ Cardinality(enq) < MaxEnqueuers
    /\ LET op == NewOperation(Len(issued) + 1, type, payload) IN
       /\ enq' = enq \cup {EnqueueAt("read", op, <<>>)}
       /\ issued' = Append(issued, op)
    /\ quiet' = (quiet /\ enq = {})
    /\ UNCHANGED <<isOnline, syncInProgress, storage, pass, trace, got, watch>>

\* getItem answers; push and `AsyncStorage.setItem(JSON.stringify(queue))`,
\* offlineQueue.ts:71-73 and 90-91.
EnqueueRead ==
    /\ ~ReturnPending
    /\ \E e \in enq :
          /\ e.pc = "read"
          /\ enq' = (enq \ {e}) \cup
                {EnqueueAt("write", e.op, Stringify(Push(GetQueue(storage), e.op)))}
    /\ UNCHANGED <<isOnline, syncInProgress, storage, pass, issued, quiet, trace, got, watch>>

\* The storage carries out enqueue's setItem, offlineQueue.ts:73.
EnqueueWrite ==
    /\ ~ReturnPending
    /\ \E e \in enq :
          /\ e.pc = "write"
          /\ storage' = Entry(e.text)
          /\ enq' = (enq \ {e}) \cup {EnqueueAt("written", e.op, <<>>)}
          /\ blind' = blind \ {ReadFailed("enqueue", e.op.id)}
    /\ got' = <<>>
    /\ UNCHANGED <<isOnline, syncInProgress, pass, issued, quiet, trace, listeners, called>>

\* enqueue resumes after setItem, offlineQueue.ts:75-82: the
\* fire-and-forget processQueue when online, then the id is returned.
EnqueueReturn(p) ==
    /\ ~ReturnPending
    /\ \E e \in enq :
          /\ e.pc = "written"
          /\ enq' = enq \ {e}
    /\ IF TriggersReplay(isOnline)
       THEN FreePassSlot(p) /\ Invoke(p, isOnline)
       ELSE p = 1 /\ UNCHANGED <<pass, syncInProgress, quiet>>
    /\ UNCHANGED <<isOnline, storage, issued, trace, got, watch>>

\* A caller invokes processQueue, offlineQueue.ts:109-119.
ProcessQueueCall(p) ==
    /\ ~ReturnPending
    /\ FreePassSlot(p)
    /\ Invoke(p, isOnline)
    /\ UNCHANGED <<isOnline, storage, enq, issued, trace, got, watch>>

\* getItem answers the pass; the loop runs to its first platform call,
\* offlineQueue.ts:119-124.
PassRead(p) ==
    /\ ~ReturnPending
    /\ pass[p].pc = "read"
    /\ LET s == RunLoop([pass[p] EXCEPT !.queue = GetQueue(storage), !.i = 1]) IN
       /\ pass' = [pass EXCEPT ![p] = s]
       /\ attempts' = Record(attempts, NewEntries(pass[p], s), tracked, "unknown")
    /\ UNCHANGED <<isOnline, syncInProgress, storage, enq, issued, quiet,
                   tracked, wroteOut, cleared, got, watch>>

\* The fetch of the operation at position i settles; the loop runs on to its
\* next platform call, offlineQueue.ts:124-138.
FetchSettles(p, outcome) ==
    /\ ~ReturnPending
    /\ pass[p].pc = "call"
    /\ LET s == RunLoop(Settle(pass[p], outcome)) IN
       /\ pass' = [pass EXCEPT ![p] = s]
       /\ attempts' = Record(attempts, NewEntries(pass[p], s), tracked, outcome)
    /\ UNCHANGED <<isOnline, syncInProgress, storage, enq, issued, quiet,
                   tracked, wroteOut, cleared, got, watch>>

\* The storage carries out the pass's setItem, offlineQueue.ts:138.
PassWrite(p) ==
    /\ ~ReturnPending
    /\ pass[p].pc = "write"
    /\ storage' = Entry(pass[p].text)
    /\ pass' = [pass EXCEPT ![p].pc = "finally"]
    /\ wroteOut' = (wroteOut \/ tracked \in IdsOf(pass[p].queue) \ IdsOf(pass[p].remaining))
    /\ got' = <<>>
    /\ blind' = blind \ {ReadFailed("pass", p)}
    /\ UNCHANGED <<isOnline, syncInProgress, enq, issued, quiet, tracked,
                   attempts, cleared, listeners, called>>

\* The pass resumes after setItem: finally, return, offlineQueue.ts:139-143.
PassReturn(p) ==
    /\ ~ReturnPending
    /\ pass[p].pc = "finally"
    /\ syncInProgress' = FALSE
    /\ pass' = [pass EXCEPT ![p] = Returned(pass[p].success, pass[p].failed)]
    /\ UNCHANGED <<isOnline, storage, enq, issued, quiet, trace, got, watch>>

\* The promise of an invocation that has returned or thrown settles,
\* offlineQueue.ts:111, 141 and 143, in the microtask that follows.
ReturnDelivered(p) ==
    /\ pass[p].pc \in {"returned", "rejected"}
    /\ pass' = [pass EXCEPT ![p] = IdlePass]
    /\ UNCHANGED <<isOnline, syncInProgress, storage, enq, issued, quiet, trace, got, watch>>

\* `this.listeners.forEach(listener => listener(this.isOnline))`,
\* offlineQueue.ts:33: one call per registration, in order, each with the
\* state just stored; `transition` notes whether the event changed the state.
\* The callbacks are taken not to call back into the queue.
Notify(ls, now, transition) ==
    [k \in 1..Len(ls) |-> [callback |-> ls[k], arg |-> now, transition |-> transition]]

\* NetInfo reports a state, offlineQueue.ts:28-39.
NetInfoEvent(connected, p) ==
    LET wasOffline == ~isOnline
        now == IF connected = "null" THEN TRUE ELSE connected = "true" IN
    /\ ~ReturnPending
    /\ isOnline' = now
    /\ called' = IF listeners = <<>> THEN called ELSE Notify(listeners, now, now # isOnline)
    /\ IF ReconnectTriggers(wasOffline, now)
       THEN FreePassSlot(p) /\ Invoke(p, now)
       ELSE p = 1 /\ UNCHANGED <<pass, syncInProgress, quiet>>
    /\ UNCHANGED <<storage, enq, issued, trace, got, listeners, blind>>

\* clearQueue, offlineQueue.ts:187-189: the storage carries out removeItem.
ClearQueue ==
    /\ ~ReturnPending
    /\ storage.has
    /\ storage' = NoEntry
    /\ cleared' = (cleared \/ tracked \in StoredIds)
    /\ quiet' = FALSE
    /\ got' = <<>>
    /\ UNCHANGED <<isOnline, syncInProgress, enq, pass, issued, tracked,
                   attempts, wroteOut, watch>>

\* ------------------------------------------------------------------ getQueue
GetQueueCallDraining ==
    /\ ~ReturnPending
    /\ Len(got) < MaxReads
    /\ got' = Append(got, GetQueue(storage))
    /\ storage' = NoEntry
    /\ UNCHANGED <<isOnline, syncInProgress, enq, pass, issued, quiet, trace, watch>>

\* A caller's getQueue, offlineQueue.ts:88-91: getItem answers and the
\* parsed queue is returned.
GetQueueCall ==
    /\ ~ReturnPending
    /\ Len(got) < MaxReads
    /\ got' = Append(got, GetQueue(storage))
    /\ UNCHANGED <<isOnline, syncInProgress, storage, enq, pass, issued, quiet, trace, watch>>

\* ------------------------------------------------------------ listeners
\* onNetworkChange(callback), offlineQueue.ts:45-46.
OnNetworkChange(cb) ==
    /\ ~ReturnPending
    /\ Len(listeners) < MaxListeners
    /\ listeners' = Append(listeners, cb)
    /\ UNCHANGED <<isOnline, syncInProgress, storage, enq, pass, issued, quiet,
                   trace, got, called, blind>>

\* The function onNetworkChange(callback) returned is called,
\* offlineQueue.ts:47-49.
Unsubscribe(cb) ==
    /\ ~ReturnPending
    /\ \E k \in 1..Len(listeners) : listeners[k] = cb
    /\ listeners' = SelectSeq(listeners, LAMBDA l : l # cb)
    /\ UNCHANGED <<isOnline, syncInProgress, storage, enq, pass, issued, quiet,
                   trace, got, called, blind>>

\* ------------------------------------------------------------ storage faults
\* getItem rejects while enqueue waits for it: getQueue's catch returns [],
\* offlineQueue.ts:92-95, and enqueue goes on with the new operation alone,
\* offlineQueue.ts:71-73.
EnqueueReadFails ==
    /\ ~ReturnPending
    /\ \E e \in enq :
          /\ e.pc = "read"
          /\ enq' = (enq \ {e}) \cup
                {EnqueueAt("write", e.op, Stringify(Push(<<>>, e.op)))}
          /\ blind' = blind \cup {ReadFailed("enqueue", e.op.id)}
    /\ quiet' = FALSE
    /\ UNCHANGED <<isOnline, syncInProgress, storage, pass, issued, trace, got,
                   listeners, called>>

\* setItem rejects while enqueue waits for it, offlineQueue.ts:73: nothing
\* catches the exception, the rest of enqueue is skipped and its promise
\* rejects.
EnqueueWriteFails ==
    /\ ~ReturnPending
    /\ \E e \in enq :
          /\ e.pc = "write"
          /\ enq' = (enq \ {e}) \cup {EnqueueAt("rejected", e.op, <<>>)}
          /\ blind' = blind \ {ReadFailed("enqueue", e.op.id)}
    /\ quiet' = FALSE
    /\ UNCHANGED <<isOnline, syncInProgress, storage, pass, issued, trace, got,
                   listeners, called>>

\* The rejection of enqueue reaches its caller.
EnqueueRejected ==
    /\ \E e \in enq :
          /\ e.pc = "rejected"
          /\ enq' = enq \ {e}
    /\ UNCHANGED <<isOnline, syncInProgress, storage, pass, issued, quiet, trace, got, watch>>

\* getItem rejects while the pass waits for it: getQueue's catch returns [],
\* offlineQueue.ts:92-95, the loop has nothing to do and the pass hands []
\* to setItem, offlineQueue.ts:119-138.
PassReadFails(p) ==
    /\ ~ReturnPending
    /\ pass[p].pc = "read"
    /\ pass' = [pass EXCEPT ![p] = RunLoop([pass[p] EXCEPT !.queue = <<>>, !.i = 1])]
    /\ blind' = blind \cup {ReadFailed("pass", p)}
    /\ UNCHANGED <<isOnline, syncInProgress, storage, enq, issued, quiet, trace, got,
                   listeners, called>>

PassWriteFailsKeepingFlag(p) ==
    /\ ~ReturnPending
    /\ pass[p].pc = "write"
    /\ pass' = [pass EXCEPT ![p] = Rejected]
    /\ blind' = blind \ {ReadFailed("pass", p)}
    /\ UNCHANGED <<isOnline, syncInProgress, storage, enq, issued, quiet, trace, got,
                   listeners, called>>

\* setItem rejects while the pass waits for it, offlineQueue.ts:138: finally
\* clears the flag and the exception leaves processQueue,
\* offlineQueue.ts:139-141.
PassWriteFails(p) ==
    /\ ~ReturnPending
    /\ pass[p].pc = "write"
    /\ syncInProgress' = FALSE
    /\ pass' = [pass EXCEPT ![p] = Rejected]
    /\ blind' = blind \ {ReadFailed("pass", p)}
    /\ UNCHANGED <<isOnline, storage, enq, issued, quiet, trace, got, listeners, called>>

\* A storage call fails.
StorageFault ==
    \/ EnqueueReadFails
    \/ EnqueueWriteFails
    \/ EnqueueRejected
    \/ \E p \in PassSlots : PassReadFails(p)
    \/ \E p \in PassSlots : PassWriteFails(p)

\* Every step but a call of enqueue or of processQueue.
Unprompted ==
    \/ EnqueueRead
    \/ EnqueueWrite
    \/ \E p \in PassSlots : EnqueueReturn(p)
    \/ \E p \in PassSlots : PassRead(p)
    \/ \E p \in PassSlots, o \in FetchOutcomes : FetchSettles(p, o)
    \/ \E p \in PassSlots : PassWrite(p)
    \/ \E p \in PassSlots : PassReturn(p)
    \/ \E p \in PassSlots : ReturnDelivered(p)
    \/ \E c \in ConnectedValues, p \in PassSlots : NetInfoEvent(c, p)
    \/ ClearQueue

\* Every step but a call of enqueue.
Progress ==
    \/ \E p \in PassSlots : ProcessQueueCall(p)
    \/ Unprompted

Next ==
    \/ \E t \in EnqueuedTypes, b \in Payloads : EnqueueCall(t, b)
    \/ Progress

Spec == Init /\ [][Next]_vars

SpecTracked == InitTracked /\ [][Next]_vars

\* The callers await each enqueue call before they make the next one.
NextAwaited ==
    \/ enq = {} /\ \E t \in EnqueuedTypes, b \in Payloads : EnqueueCall(t, b)
    \/ Progress

SpecAwaited == InitTracked /\ [][NextAwaited]_vars

\* The same callers, with no operation singled out for the attempt history.
SpecSequential == Init /\ [][NextAwaited]_vars

\* The application leaves the replay to the queue: processQueue is invoked
\* by enqueue and by the NetInfo listener only.
NextSelfStarted ==
    \/ \E t \in EnqueuedTypes, b \in Payloads : EnqueueCall(t, b)
    \/ Unprompted

SpecSelfStarted == Init /\ [][NextSelfStarted]_vars

\* The storage may fail any call.
NextFaulty == Next \/ StorageFault

SpecFaulty == Init /\ [][NextFaulty]_vars

\* The application also reads the queue, at any point of a behaviour in
\* which it awaits its enqueue calls.
NextReads == NextAwaited \/ GetQueueCall

SpecReads == Init /\ [][NextReads]_vars

\* The application also registers and unregisters callbacks.
NextListeners ==
    \/ NextAwaited
    \/ \E cb \in Callbacks : OnNetworkChange(cb)
    \/ \E cb \in Callbacks : Unsubscribe(cb)

SpecListeners == Init /\ [][NextListeners]_vars

\* The storage answers every getItem and setItem, and the runtime resumes
\* every function whose awaited call has settled: a step that is possible
\* again and again is taken.
StorageAnswers ==
    /\ SF_vars(EnqueueRead)
    /\ SF_vars(EnqueueWrite)
    /\ SF_vars(\E p \in PassSlots : EnqueueReturn(p))
    /\ SF_vars(\E p \in PassSlots : PassRead(p))
    /\ SF_vars(\E p \in PassSlots : PassWrite(p))
    /\ SF_vars(\E p \in PassSlots : PassReturn(p))
    /\ SF_vars(\E p \in PassSlots : ReturnDelivered(p))

\* The backend settles every fetch.
BackendAnswers == SF_vars(\E p \in PassSlots, o \in FetchOutcomes : FetchSettles(p, o))

\* The backend may leave a fetch unanswered for ever: executeOperation sets
\* no timer and passes no abort signal, offlineQueue.ts:153-178, so nothing
\* but the backend's answer settles the call.
SpecUnanswered == Init /\ [][Next]_vars /\ StorageAnswers

\* Every remote call and every storage call terminates; the calls of the
\* application and the connectivity events come when they come, or never.
SpecAnswered == InitTracked /\ [][NextAwaited]_vars /\ StorageAnswers /\ BackendAnswers

\* ------------------------------------------------------------------ claims
\* The ids whose enqueue call has returned.
Resolved == {issued[k].id : k \in 1..Len(issued)} \ {e.op.id : e \in enq}

RunningPasses == {p \in PassSlots : pass[p].pc \in Running}

\* The attempts of the tracked operation by how the loop counted them.
CountedAs(c) == {k \in 1..Len(attempts) : attempts[k].counted = c}

\* Every attempt of the tracked operation so far threw.
AlwaysFailed == \A k \in 1..Len(attempts) : attempts[k].outcome \in {"neterr", "unknown"}

\* No pass in flight still holds the tracked operation in its snapshot.
NoPassHoldsTracked == \A p \in RunningPasses : tracked \notin IdsOf(pass[p].queue)

\* C1: in every reachable state at most one processQueue invocation is past
\* the syncInProgress guard, that is between reading the persisted queue and
\* having written it back, whoever invoked it (a caller, enqueue, a
\* reconnect event).
C1_AtMostOnePass == Cardinality(RunningPasses) <= 1

\* C1's case: a pass awaits a fetch while a second invocation has just been
\* turned away.
C1_Witness ==
    \E p, q \in PassSlots : pass[p].pc = "call" /\ pass[q].pc = "returned"

\* C2: a processQueue invocation made while an earlier one has not returned
\* returns {success: 0, failed: 0} and neither reads nor writes the persisted
\* queue nor issues a remote call: the step leaves the storage and every
\* other invocation as they are.
C2_LaterInvocationIsNoOp ==
    [][\A p \in PassSlots :
          (pass[p].pc = "idle" /\ pass'[p].pc # "idle" /\ RunningPasses # {})
          => /\ pass'[p] = Returned(0, 0)
             /\ storage' = storage
             /\ \A q \in PassSlots \ {p} : pass'[q] = pass[q]]_vars

\* C2's case: an invocation has returned {0, 0} while a pass is in flight.
C2_Witness ==
    \E p, q \in PassSlots : pass[p] = Returned(0, 0) /\ pass[q].pc \in {"read", "call", "write"}

\* C3: an operation whose enqueue call has returned is in the persisted queue
\* unless a replay pass executed it successfully, a replay pass dropped it on
\* its third failure, or clearQueue removed it.
C3_EnqueuedStaysUntilHandled ==
    (tracked \in Resolved /\ CountedAs("success") = {} /\ CountedAs("failed") = {}
        /\ ~cleared)
    => tracked \in StoredIds

\* C4: an operation that a replay pass wrote out of the persisted queue
\* (executed, or dropped after its third failure) is never in the persisted
\* queue again.
C4_NoResurrection == wroteOut => tracked \notin StoredIds

\* C5: an operation whose execution always fails is attempted in exactly
\* three passes, its retryCount going 1, 2, 3; it is counted in `failed` by
\* the third attempt and by no other, and once the third pass has written
\* back it is absent from the persisted queue.
C5_ThreeAttemptsThenDropped ==
    AlwaysFailed
    => /\ Len(attempts) <= MAX_RETRIES
       /\ \A k \in 1..Len(attempts) :
             /\ attempts[k].retries = k
             /\ (attempts[k].counted = "failed") <=> (k = MAX_RETRIES)
       /\ (Len(attempts) = MAX_RETRIES /\ NoPassHoldsTracked) => tracked \notin StoredIds

\* C6: every operation in the persisted queue, and every operation in a text
\* that enqueue or a replay pass has handed to setItem, has
\* 0 <= retryCount < 3.
C6_StoredRetriesBelowBudget ==
    /\ \A k \in 1..Len(GetQueue(storage)) : GetQueue(storage)[k].retries \in 0..(MAX_RETRIES - 1)
    /\ \A e \in enq : \A k \in 1..Len(e.text) : Parse(e.text)[k].retries \in 0..(MAX_RETRIES - 1)
    /\ \A p \in PassSlots : \A k \in 1..Len(pass[p].text) :
          Parse(pass[p].text)[k].retries \in 0..(MAX_RETRIES - 1)

\* C6's case: a pass has written back an operation that failed twice.
C6_Witness ==
    \E k \in 1..Len(GetQueue(storage)) : GetQueue(storage)[k].retries = MAX_RETRIES - 1

\* C7: an operation whose execution got a 2xx answer on some attempt is
\* counted in `success` by that attempt, is never counted in `failed` by any
\* attempt, and is absent from the persisted queue once no pass in flight
\* holds it.
C7_SuccessRemovesForGood ==
    \A k \in 1..Len(attempts) :
        attempts[k].outcome = "ok2xx"
        => /\ attempts[k].counted = "success"
           /\ k <= MAX_RETRIES
           /\ CountedAs("failed") = {}
           /\ (wroteOut /\ NoPassHoldsTracked) => tracked \notin StoredIds

\* C8: an attempt counts as a successful execution only when the backend
\* answered 2xx: an attempt that got another status, or no answer, is not
\* counted in `success`, and it raises the operation's retryCount.
C8_OnlyTwoHundredsSucceed ==
    \A k \in 1..Len(attempts) :
        attempts[k].outcome # "ok2xx"
        => /\ attempts[k].counted # "success"
           /\ attempts[k].retries > 0

\* C9: after enqueue calls made one after the other, each returned before the
\* next, with no replay pass and no clearQueue so far, getQueue gives exactly
\* the operations constructed, one per call, in call order.
C9_EnqueueOrderKept == (quiet /\ enq = {}) => GetQueue(storage) = issued

\* C9's case: all the enqueue calls of the behaviour were made offline, one
\* after the other, and have returned.
C9_Witness == quiet /\ enq = {} /\ ~isOnline /\ Len(issued) = MaxOps /\ MaxOps > 1

\* C10: within a pass the operations are executed in the order of the queue
\* read at its start: the iterations done are those of the first operations
\* of the snapshot, in order, and a fetch is awaited only for the operation
\* right after them, so no call starts before the one before it has settled.
C10_CallsInQueueOrder ==
    \A p \in PassSlots :
        /\ Len(pass[p].log) <= Len(pass[p].queue)
        /\ \A k \in 1..Len(pass[p].log) : pass[p].log[k].id = pass[p].queue[k].id
        /\ pass[p].pc = "call"
           => /\ Len(pass[p].log) < Len(pass[p].queue)
              /\ pass[p].calling = pass[p].queue[Len(pass[p].log) + 1].id
        /\ pass[p].pc # "call" => pass[p].calling = 0

\* C10's case: a pass over two operations awaits the fetch of the second
\* after the first has settled.
C10_Witness ==
    \E p \in PassSlots :
        /\ pass[p].pc = "call"
        /\ Len(pass[p].queue) = 2
        /\ Len(pass[p].log) = 1
        /\ pass[p].queue[1].id # pass[p].queue[2].id

\* C11: a pass attempts every operation of its snapshot exactly once,
\* whatever became of the operations before it: when the loop is over, the
\* log of iterations has one entry per operation of the snapshot, in order,
\* and the counts add up to the snapshot, a failed or exhausted operation
\* included.
C11_NoFailFast ==
    \A p \in PassSlots :
        pass[p].pc \in {"write", "finally"}
        => /\ Len(pass[p].log) = Len(pass[p].queue)
           /\ \A k \in 1..Len(pass[p].queue) : pass[p].log[k].id = pass[p].queue[k].id
           /\ pass[p].success + pass[p].failed + Len(pass[p].remaining) = Len(pass[p].queue)

\* C11's case: the loop is over, its first operation failed (retained, or
\* dropped after its third failure) and the second was attempted after it.
C11_Witness ==
    \E p \in PassSlots :
        /\ pass[p].pc = "write"
        /\ Len(pass[p].queue) = 2
        /\ Len(pass[p].log) = 2
        /\ pass[p].log[1].counted = "failed"
        /\ pass[p].log[2].counted \in {"success", "retained"}

\* The invocations of processQueue a step starts.
Started == {p \in PassSlots : pass[p].pc = "idle" /\ pass'[p].pc # "idle"}

\* C12: a processQueue invocation made while the connectivity state is
\* offline returns {success: 0, failed: 0} and changes nothing: the persisted
\* queue with every retryCount in it, the in-progress flag and every other
\* invocation (so no remote call is issued) are as before.
C12_OfflineInvocationIsNoOp ==
    [][\A p \in Started :
          ~isOnline'
          => /\ pass'[p] = Returned(0, 0)
             /\ storage' = storage
             /\ syncInProgress' = syncInProgress
             /\ \A q \in PassSlots \ {p} : pass'[q] = pass[q]]_vars

\* C12's case: an invocation has returned {0, 0} offline, with no pass in
\* flight and operations waiting in the persisted queue.
C12_Witness ==
    /\ ~isOnline
    /\ ~syncInProgress
    /\ GetQueue(storage) # <<>>
    /\ \E p \in PassSlots : pass[p] = Returned(0, 0)

\* C13: a connectivity event starts a processQueue invocation if and only if
\* the state was offline before it and is online after it, and then exactly
\* one; an event that takes the state offline or leaves it as it was starts
\* none.  Stated for the steps that are no step of enqueue, where the
\* application itself never calls processQueue: those that start an
\* invocation are the reconnect events.
C13_ReconnectStartsOnePass ==
    [][enq' = enq
       => /\ (Started # {}) <=> (~isOnline /\ isOnline')
          /\ Cardinality(Started) <= 1]_vars

\* C13's case: the reconnect event has started an invocation, which waits for
\* its read of a queue filled offline.
C13_Witness ==
    /\ isOnline
    /\ enq = {}
    /\ Len(GetQueue(storage)) = MaxOps
    /\ \A k \in 1..Len(GetQueue(storage)) : GetQueue(storage)[k].retries = 0
    /\ \E p \in PassSlots : pass[p].pc = "read"

\* The enqueue calls that return in a step: they had their setItem carried
\* out and are in flight no more.
Returning == {e \in enq : e.pc = "written" /\ e \notin enq'}

\* C14: enqueue starts a processQueue invocation if and only if the
\* connectivity state is online when it resumes after its storage write, and
\* then one; a step of enqueue starts an invocation only when that write has
\* been carried out; and enqueue returns in the very step that starts the
\* invocation, which has at most got as far as waiting for its read.
C14_EnqueueTriggersAfterWrite ==
    [][/\ Returning # {}
          => /\ (Started # {}) <=> isOnline
             /\ Cardinality(Started) <= 1
             /\ \A p \in Started :
                   pass'[p] \in {[IdlePass EXCEPT !.pc = "read"], Returned(0, 0)}
             /\ \A p \in PassSlots \ Started : pass'[p] = pass[p]
       /\ (enq' # enq /\ Started # {}) => Returning # {}]_vars

\* C14's case: the enqueue call has returned while the pass it started online
\* is in flight, waiting for the fetch of the operation just written.
C14_Witness ==
    /\ isOnline
    /\ Len(issued) = 1
    /\ Resolved = {1}
    /\ \E p \in PassSlots : pass[p].pc = "call" /\ pass[p].calling = 1

\* C15: enqueue never fails: also when the storage fails the write of the
\* queue, no enqueue call rejects.
C15_EnqueueNeverRejects == \A e \in enq : e.pc # "rejected"

\* C16: processQueue always resolves with its tallies: whatever the remote
\* calls and the storage reads and writes do, no invocation rejects, whoever
\* started it.
C16_ProcessQueueNeverRejects == \A p \in PassSlots : pass[p].pc # "rejected"

\* The tracked operation is of a type executeOperation has no case for.
TrackedHasNoBranch ==
    tracked \in 1..Len(issued) /\ issued[tracked].type \notin FetchTypes

\* C17: an operation of a type without a branch in executeOperation
\* (create_order) fails every attempt: no attempt counts it in `success`, its
\* k-th attempt leaves its retryCount at k, and its third attempt, no other
\* and none after it, counts it in `failed`.
C17_NoBranchFailsThreeTimes ==
    TrackedHasNoBranch
    => /\ Len(attempts) <= MAX_RETRIES
       /\ \A k \in 1..Len(attempts) :
             /\ attempts[k].outcome = "unknown"
             /\ attempts[k].counted # "success"
             /\ attempts[k].retries = k
             /\ (attempts[k].counted = "failed") <=> (k = MAX_RETRIES)

\* C18: a pass that has started runs to the end of its snapshot whatever the
\* connectivity state becomes: a step of a pass that waits for its read or
\* for a fetch leaves it waiting for a fetch of its snapshot or, every
\* operation attempted, for the write of the retained list; the step after
\* that write puts exactly that list in the storage; and a connectivity
\* event changes no pass in flight.
C18_PassOutlivesConnectivity ==
    [][\A p \in PassSlots :
          /\ (pass[p].pc \in {"read", "call"} /\ pass'[p] # pass[p])
             => /\ pass'[p].pc \in {"call", "write"}
                /\ pass'[p].pc = "write"
                   => /\ Len(pass'[p].log) = Len(pass'[p].queue)
                      /\ pass'[p].text = Stringify(pass'[p].remaining)
          /\ (pass[p].pc = "write" /\ pass'[p] # pass[p])
             => /\ pass'[p].pc = "finally"
                /\ storage' = Entry(pass[p].text)
          /\ (pass[p].pc \in Running /\ isOnline' # isOnline)
             => pass'[p] = pass[p]]_vars

\* C18's case: the connectivity state is offline while a pass that has
\* settled its first operation awaits the fetch of its second.
C18_Witness ==
    /\ ~isOnline
    /\ \E p \in PassSlots :
          /\ pass[p].pc = "call"
          /\ Len(pass[p].log) = 1
          /\ Len(pass[p].queue) = 2

\* C19: an operation that was in the persisted queue when clearQueue removed
\* the entry is never in the persisted queue again, whatever was in flight
\* at the time.
C19_ClearedStaysCleared == cleared => tracked \notin StoredIds

\* C20: getQueue has no side effect: the step in which it answers leaves the
\* persisted queue, the connectivity state and the in-progress flag as they
\* were, and the results of the getQueue calls made since the storage was
\* last written are all the same: the persisted operations in their stored
\* order, or the empty queue when there is no entry.
C20_GetQueueReadsOnly ==
    /\ [](\A k \in 1..Len(got) :
             /\ got[k] = got[1]
             /\ ~storage.has => got[k] = <<>>
             /\ storage.has => Stringify(got[k]) = storage.text)
    /\ [][got' # got /\ got' # <<>>
          => /\ storage' = storage
             /\ isOnline' = isOnline
             /\ syncInProgress' = syncInProgress]_vars

\* C20's case: two getQueue calls in a row have returned the two operations
\* of the persisted queue.
C20_Witness == Len(got) = 2 /\ Len(got[2]) = 2 /\ storage.has

\* C21: a registered callback is called once per change of the connectivity
\* state, with the new state, and not otherwise: every listener call of an
\* event was made for a change of the state, carries the state the queue
\* then has stored, and no callback is called twice by one event.
C21_ListenersCalledOncePerTransition ==
    \A k \in 1..Len(called) :
        /\ called[k].transition
        /\ \A j \in 1..Len(called) : called[j].callback = called[k].callback => j = k

\* The last attempt of the tracked operation.
LastAttempt == attempts[Len(attempts)]

\* Sequence after is made of operations of before, in their order in before,
\* each with its retryCount raised by one and below the budget and with its
\* other fields as they were.
RetainedFrom(after, before) ==
    \E f \in [1..Len(after) -> 1..Len(before)] :
        /\ \A j, k \in 1..Len(after) : j < k => f[j] < f[k]
        /\ \A k \in 1..Len(after) :
              /\ after[k] = [before[f[k]] EXCEPT !.retries = @ + 1]
              /\ after[k].retries < MAX_RETRIES

\* C22: the write that ends a pass leaves in the persisted queue exactly the
\* operations of the snapshot whose attempt failed (no 2xx answer) and whose
\* raised retryCount is below 3: they keep their relative order, their id,
\* type, payload and timestamp, and have their retryCount raised by one; an
\* operation of the snapshot is written back if and only if its attempt
\* failed with the budget not yet used up.
C22_WriteBackIsTheFailedOnes ==
    [][\A p \in PassSlots :
          (pass[p].pc = "write" /\ pass'[p].pc = "finally")
          => /\ RetainedFrom(GetQueue(storage'), pass[p].queue)
             /\ tracked \in IdsOf(pass[p].queue)
                => (tracked \in IdsOf(GetQueue(storage'))
                    <=> (LastAttempt.outcome # "ok2xx"
                         /\ LastAttempt.retries < MAX_RETRIES))]_vars

\* C23: every storage write of enqueue is an append: the persisted queue
\* right after the write is the persisted queue right before it with the new
\* operation added at the end.
C23_EnqueueWriteAppends ==
    [][\A e \in enq :
          (e.pc = "write" /\ EnqueueAt("written", e.op, <<>>) \in enq')
          => GetQueue(storage') = Append(GetQueue(storage), e.op)]_vars

\* C24: every pass that starts completes, also when the backend never
\* answers: a pass that awaits a remote call eventually stops awaiting it,
\* and the in-progress flag, once set, is eventually cleared.
C24_PassEventuallyCompletes ==
    /\ \A p \in PassSlots : (pass[p].pc = "call") ~> (pass[p].pc # "call")
    /\ syncInProgress ~> ~syncInProgress

\* C25: no operation is executed twice: over all passes at most one attempt
\* of an operation gets a 2xx answer.
C25_NoDoubleExecution ==
    Cardinality({k \in 1..Len(attempts) : attempts[k].outcome = "ok2xx"}) <= 1

\* C26: a processQueue invocation that returns early, because a pass is in
\* flight or the state is offline, leaves the in-progress flag as it was and
\* the pass in flight untouched, so the flag stays with the running pass
\* through any number of such invocations.
C26_EarlyReturnKeepsFlag ==
    [][\A p \in Started :
          pass'[p].pc = "returned"
          => /\ syncInProgress' = syncInProgress
             /\ RunningPasses' = RunningPasses
             /\ \A q \in RunningPasses : pass'[q] = pass[q]]_vars

\* C26's case: an invocation has returned early while the flag is set for a
\* pass that has its write-back under way.
C26_Witness ==
    /\ syncInProgress
    /\ \E p, q \in PassSlots : pass[p].pc = "returned" /\ pass[q].pc = "finally"

\* C27: the in-progress flag is true exactly when one pass is executing,
\* also after a pass has ended by an exception of its final storage write;
\* and an invocation made online with the flag clear starts a new pass.
C27_FlagIffPassExecuting ==
    /\ [](syncInProgress <=> Cardinality(RunningPasses) = 1)
    /\ [][\A p \in Started :
             (~syncInProgress /\ isOnline') => pass'[p].pc = "read"]_vars

\* C27's case: a pass has ended by the exception of its write-back and the
\* flag is clear again.
C27_Witness ==
    /\ ~syncInProgress
    /\ \E p \in PassSlots : pass[p].pc = "rejected"

\* C28: a failed read of the persisted queue discards nothing: the write of
\* an enqueue call or of a pass whose read failed leaves every operation
\* that was persisted before the write in the persisted queue.
C28_FailedReadKeepsQueue ==
    [][/\ \A e \in enq :
             (/\ e.pc = "write"
              /\ ReadFailed("enqueue", e.op.id) \in blind
              /\ EnqueueAt("written", e.op, <<>>) \in enq')
             => StoredIds \subseteq IdsOf(GetQueue(storage'))
       /\ \A p \in PassSlots :
             (/\ pass[p].pc = "write"
              /\ ReadFailed("pass", p) \in blind
              /\ pass'[p].pc = "finally")
             => StoredIds \subseteq IdsOf(GetQueue(storage'))]_vars

\* C29: when the connectivity state stays online and nothing clears the
\* queue, an operation whose enqueue call has returned is eventually
\* attempted by a pass, whatever else the application does or does not do
\* afterwards.
C29_EnqueuedIsEventuallyAttempted ==
    [](isOnline /\ ~cleared) => ((tracked \in Resolved) ~> (attempts # <<>>))

\* The iterations of a pass that ended a given way.
Counted(s, c) == {k \in 1..Len(s.log) : s.log[k].counted = c}

\* C30: when the loop of a pass is over, each operation of the snapshot has
\* had exactly one of three outcomes: `success` counts the iterations that
\* ended in the try branch, `failed` those that dropped the operation, the
\* list handed to setItem holds the remaining ones, and the three numbers
\* add up to the length of the snapshot.
C30_OutcomesPartitionSnapshot ==
    \A p \in PassSlots :
        pass[p].pc \in {"write", "finally"}
        => /\ pass[p].success = Cardinality(Counted(pass[p], "success"))
           /\ pass[p].failed = Cardinality(Counted(pass[p], "failed"))
           /\ Len(Parse(pass[p].text)) = Cardinality(Counted(pass[p], "retained"))
           /\ \A k \in Counted(pass[p], "retained") :
                 pass[p].queue[k].id \in IdsOf(Parse(pass[p].text))
           /\ pass[p].success + pass[p].failed + Len(Parse(pass[p].text))
                 = Len(pass[p].queue)

\* C30's case: a pass over two operations has its loop over with one
\* operation dropped and counted in `failed` and the other one retained.
C30_Witness ==
    \E p \in PassSlots :
        /\ pass[p].pc = "finally"
        /\ Len(pass[p].queue) = 2
        /\ pass[p].failed = 1
        /\ Len(Parse(pass[p].text)) = 1


====
